---- MODULE Spec2Model ----
(***************************************************************************)
(* A model of the jungle adventure game ("adventure game pt2.py") and of   *)
(* the dungeon room table ("idk.py").                                      *)
(*                                                                         *)
(* The adventure game is one synchronous thread: main() creates the player *)
(* dict, lets the player pick a background, runs up to three exploration   *)
(* rounds, then the final encounter and the conclusion.  Every random draw *)
(* and every line of console input is a nondeterministic choice.           *)
(*                                                                         *)
(* Python strings that the code takes apart or concatenates (backgrounds,  *)
(* skills, animal and item names) are sequences of one-character strings,  *)
(* so that lower(), split() and + are computed and not assumed.  Strings   *)
(* the code only prints are TLA+ strings.                                  *)
(***************************************************************************)
EXTENDS Integers, Sequences, FiniteSets, TLC

VARIABLES
    pc,                \* where main() stands
    player,            \* the dict made by get_player_details, shared by reference
    main_player,       \* what main()'s local `player` is bound to: "dict" or "None"
    round,             \* the for-loop variable of main(); -1 before the first round
    choice,            \* jungle_exploration's local `choice` in the last round
    chosen_animal,     \* hunting_mini_game's local `chosen_animal`
    roll,              \* the value random.randint(1, 10) gave hunting_mini_game
    hunting_success,   \* hunting_mini_game's local `hunting_success`
    chosen_scientists, \* final_encounter's local, while final_encounter runs
    message,           \* the outcome line printed last by final_challenge / game_conclusion
    error,             \* the uncaught exception that ended the process, "" if none
    path               \* the dungeon rooms walked through, the current room last

vars == <<pc, player, main_player, round, choice, chosen_animal, roll,
          hunting_success, chosen_scientists, message, error, path>>

----------------------------------------------------------------------------
(* Bounds of the model.                                                    *)

\* The menu input ranges over (1 - InputSlack) .. (4 + InputSlack).
InputSlack == 1

\* The longest walk through the dungeon rooms, in rooms.
MaxPath == 9

\* Names typed at the first prompt.
Names == {"Ana", "Bo"}

----------------------------------------------------------------------------
(* String literals of the program, as character sequences.                 *)

STR_Wilderness_Survivor ==
    <<"W","i","l","d","e","r","n","e","s","s"," ","S","u","r","v","i","v","o","r">>
STR_Ex_Military_Scout ==
    <<"E","x","-","M","i","l","i","t","a","r","y"," ","S","c","o","u","t">>
STR_Adventurous_Researcher ==
    <<"A","d","v","e","n","t","u","r","o","u","s"," ","R","e","s","e","a","r","c","h","e","r">>
STR_Local_Jungle_Guide ==
    <<"L","o","c","a","l"," ","J","u","n","g","l","e"," ","G","u","i","d","e">>
STR_yes ==
    <<"y","e","s">>
STR_scout ==
    <<"s","c","o","u","t">>
STR_guide ==
    <<"g","u","i","d","e">>
STR_Deer ==
    <<"D","e","e","r">>
STR_Wild_Boar ==
    <<"W","i","l","d"," ","B","o","a","r">>
STR_Turkey ==
    <<"T","u","r","k","e","y">>
STR_meat ==
    <<" ","m","e","a","t">>
STR_Ancient_Map ==
    <<"A","n","c","i","e","n","t"," ","M","a","p">>
STR_Tribal_Artifact ==
    <<"T","r","i","b","a","l"," ","A","r","t","i","f","a","c","t">>

ascii_uppercase ==
    <<"A","B","C","D","E","F","G","H","I","J","K","L","M","N","O","P","Q","R","S","T","U","V","W","X","Y","Z">>
ascii_lowercase ==
    <<"a","b","c","d","e","f","g","h","i","j","k","l","m","n","o","p","q","r","s","t","u","v","w","x","y","z">>

\* str.lower(): every upper-case letter becomes its lower-case letter.
lower_char(c) ==
    IF \E i \in 1..Len(ascii_uppercase) : ascii_uppercase[i] = c
    THEN ascii_lowercase[CHOOSE i \in 1..Len(ascii_uppercase) : ascii_uppercase[i] = c]
    ELSE c

lower(s) ==
    [i \in 1..Len(s) |-> lower_char(s[i])]

\* str.split() with no argument: the maximal runs of non-blank characters.
RECURSIVE split_from(_, _, _)
split_from(s, i, word) ==
    LET flush == IF word = <<>> THEN <<>> ELSE <<word>> IN
    IF i > Len(s) THEN flush
    ELSE IF s[i] = " " THEN flush \o split_from(s, i + 1, <<>>)
    ELSE split_from(s, i + 1, Append(word, s[i]))

split(s) ==
    split_from(s, 1, <<>>)

\* `x in list`
In(x, list) ==
    \E i \in 1..Len(list) : list[i] = x

----------------------------------------------------------------------------
(* Character creation.                                                     *)

get_player_details(name) ==
    [name |-> name, health |-> 100, food |-> 0, inventory |-> <<>>,
     skills |-> <<>>, background |-> <<>>]

backgrounds ==
    <<STR_Wilderness_Survivor, STR_Ex_Military_Scout,
      STR_Adventurous_Researcher, STR_Local_Jungle_Guide>>

\* The skill a background gives: backgrounds[choice-1].lower().split()[1]
\* (Python indexes from 0, TLA+ from 1).
skill_of(background) ==
    split(lower(background))[2]

\* The body of choose_background's loop for an accepted choice.
choose_background(p, c) ==
    [p EXCEPT !.background = backgrounds[c],
              !.skills = Append(@, skill_of(backgrounds[c]))]

----------------------------------------------------------------------------
(* The mini-games, as functions of the player and of the draws.            *)

animals ==
    << [name |-> STR_Deer,      difficulty |-> 3, food_value |-> 30],
       [name |-> STR_Wild_Boar, difficulty |-> 5, food_value |-> 50],
       [name |-> STR_Turkey,    difficulty |-> 2, food_value |-> 20] >>

hunting_bonus(skills) ==
    IF In(STR_scout, skills) \/ In(STR_guide, skills) THEN 3 ELSE 0

hunting_score(p, r) ==
    r + hunting_bonus(p.skills)

\* A bug hunt_succeeds could have: > for >=.
hunt_succeeds_strict(score, animal) ==
    score > animal.difficulty

hunt_succeeds(score, animal) ==
    score >= animal.difficulty

\* A bug hunting_mini_game could have: the meat appended to player['skills'].
hunting_mini_game_wrong_list(p, animal, r) ==
    IF hunt_succeeds(hunting_score(p, r), animal)
    THEN [p EXCEPT !.food = @ + animal.food_value,
                   !.skills = Append(@, animal.name \o STR_meat)]
    ELSE p

hunting_mini_game(p, animal, r) ==
    IF hunt_succeeds(hunting_score(p, r), animal)
    THEN [p EXCEPT !.food = @ + animal.food_value,
                   !.inventory = Append(@, animal.name \o STR_meat)]
    ELSE p

\* A bug water_sources could have: -100 typed for -10.
water_sources_typo ==
    << [type |-> "River",           quality |-> "Good",      health_boost |-> 20],
       [type |-> "Muddy Pond",      quality |-> "Risky",     health_boost |-> -100],
       [type |-> "Mountain Stream", quality |-> "Excellent", health_boost |-> 30] >>

water_sources ==
    << [type |-> "River",           quality |-> "Good",      health_boost |-> 20],
       [type |-> "Muddy Pond",      quality |-> "Risky",     health_boost |-> -10],
       [type |-> "Mountain Stream", quality |-> "Excellent", health_boost |-> 30] >>

\* A bug water_search could have: the boost added to player['food'].
water_search_wrong_key(p, source, answer) ==
    IF lower(answer) = STR_yes
    THEN [p EXCEPT !.food = @ + source.health_boost]
    ELSE p

\* What may be typed at "Drink from this source? (yes/no)".
DrinkAnswers ==
    {<<"y","e","s">>, <<"Y","e","s">>, <<"n","o">>, <<>>}

water_search(p, source, answer) ==
    IF lower(answer) = STR_yes
    THEN [p EXCEPT !.health = @ + source.health_boost]
    ELSE p

shelters ==
    << [type |-> "Cave",                   protection |-> TRUE],
       [type |-> "Tree House",             protection |-> TRUE],
       [type |-> "Natural Rock Formation", protection |-> FALSE],
       [type |-> "Dense Bush Cluster",     protection |-> FALSE] >>

find_shelter(p, shelter) ==
    IF shelter.protection
    THEN [p EXCEPT !.health = @ + 10]
    ELSE p

outcomes ==
    << [text |-> "research camp",   found_item |-> TRUE],
       [text |-> "rare bird",       found_item |-> FALSE],
       [text |-> "tribal markings", found_item |-> TRUE],
       [text |-> "monkey",          found_item |-> FALSE] >>

sound_items ==
    <<STR_Ancient_Map, STR_Tribal_Artifact>>

\* A bug investigate_sounds could have: insert(0, item) for append(item).
investigate_sounds_insert(p, outcome, item_found) ==
    IF outcome.found_item
    THEN [p EXCEPT !.inventory = <<item_found>> \o @]
    ELSE p

investigate_sounds(p, outcome, item_found) ==
    IF outcome.found_item
    THEN [p EXCEPT !.inventory = Append(@, item_found)]
    ELSE p

----------------------------------------------------------------------------
(* The final encounter.                                                    *)

scientists ==
    <<"Jacob", "Jake", "Alvin", "Calvin", "Nicholas">>

\* random.sample(scientists, 3): three different scientists.  The order of
\* the list decides only how the line "Available scientists" reads, so a
\* sample is the set of its three names.
samples ==
    {s \in SUBSET {scientists[i] : i \in 1..Len(scientists)} : Cardinality(s) = 3}

\* What may be typed at "Choose your pilot": a scientist or another word.
PilotInputs ==
    {scientists[i] : i \in 1..Len(scientists)} \cup {"Bob"}

challenges ==
    << [text |-> "storm",   success_required |-> TRUE],
       [text |-> "animal",  success_required |-> FALSE],
       [text |-> "fuel",    success_required |-> TRUE],
       [text |-> "injured", success_required |-> FALSE] >>

\* final_challenge changes nothing but the line it prints.
final_challenge(challenge, r) ==
    IF challenge.success_required
    THEN (IF r > 5 THEN "completed" ELSE "failed")
    ELSE (IF r > 5 THEN "scared away" ELSE "escaped unharmed")

game_conclusion_line(p) ==
    IF p.health > 0 THEN "survived" ELSE "journey ended"

----------------------------------------------------------------------------
(* The dungeon room table of idk.py.  A room is a dict: "description" and  *)
(* "options" describe it, every other key is a transition and its value is *)
(* the name of the room the transition leads to.  The file holds no code   *)
(* that walks the table.                                                   *)

Entrance ==
    [description |-> "entrance of a dark dungeon",
     options |-> <<"Go left", "Go right">>,
     left |-> "Trap Room",
     right |-> "Treasure Room"]

Trap_Room ==
    [description |-> "spikes on the floor",
     options |-> <<"Move ahead carefully", "Go back">>,
     ahead |-> "Monster Room",
     back |-> "Entrance"]

Treasure_Room ==
    [description |-> "glittering treasure",
     options |-> <<"Take treasure", "Go back">>,
     back |-> "Entrance"]

\* A bug the table could have: a transition to a room it does not hold.
Monster_Room_dangling ==
    [description |-> "a fierce monster",
     options |-> <<"Fight", "Run">>,
     fight |-> "Fight",
     run |-> "Trap Room"]

Monster_Room ==
    [description |-> "a fierce monster",
     options |-> <<"Fight", "Run">>,
     fight |-> "Fight Outcome",
     run |-> "Trap Room"]

Fight_Outcome ==
    [description |-> "You prepare for battle!",
     options |-> <<"Attack", "Defend">>]

rooms ==
    "Entrance" :> Entrance
    @@ "Trap Room" :> Trap_Room
    @@ "Treasure Room" :> Treasure_Room
    @@ "Monster Room" :> Monster_Room
    @@ "Fight Outcome" :> Fight_Outcome

\* The rooms the transitions of room r lead to.
room_targets(r) ==
    {rooms[r][k] : k \in DOMAIN rooms[r] \ {"description", "options"}}

\* The names reached from the names in `seen` by following transitions; a
\* name that is no room of the table has no transitions to follow.
RECURSIVE reached_from(_)
reached_from(seen) ==
    LET more == UNION {room_targets(r) : r \in seen \cap DOMAIN rooms} IN
    IF more \subseteq seen THEN seen ELSE reached_from(seen \cup more)

\* The room a walk stands in.
current_room(walk) ==
    walk[Len(walk)]

----------------------------------------------------------------------------
(* main().                                                                 *)

\* A bug the loop could have: range(4).
NumRounds_one_more ==
    3 + 1

\* range(3)
NumRounds == 3

\* Where main() goes after round i, whose call of jungle_exploration returned
\* `result` ("dict": the player dict, "None": nothing) and left the dict as p:
\* player['health'] on None raises TypeError; health <= 0 breaks the loop;
\* the loop ends after the last round.
main_after_round(result, p, i) ==
    IF result = "None" THEN "crashed"
    ELSE IF p.health <= 0 THEN "after_loop"
    ELSE IF i + 1 < NumRounds THEN "exploring"
    ELSE "after_loop"

\* `if player['health'] > 0: final_encounter(player)`.  No mini-game takes
\* health below 70 (C10), so in every run this test and the break above find
\* health > 0.
main_runs_final(p) ==
    p.health > 0

\* A local that is not bound is <<>>, a local bound to v is <<v>>.  The
\* locals of a mini-game stay visible until the next call is made.
Unbound == <<>>

Init ==
    /\ pc = "choose_background"
    /\ \E name \in Names : player = get_player_details(name)
    /\ main_player = "dict"
    /\ round = -1
    /\ choice = Unbound
    /\ chosen_animal = Unbound
    /\ roll = Unbound
    /\ hunting_success = Unbound
    /\ chosen_scientists = Unbound
    /\ message = ""
    /\ error = ""
    /\ path = <<"Entrance">>

MenuInputs ==
    (1 - InputSlack) .. (Len(backgrounds) + InputSlack)

\* choose_background, a number of the menu typed.
choose_background_ok ==
    /\ pc = "choose_background"
    /\ \E c \in MenuInputs :
        /\ 1 <= c /\ c <= Len(backgrounds)
        /\ player' = choose_background(player, c)
    /\ pc' = "exploring"
    /\ UNCHANGED <<main_player, round, choice, chosen_animal, roll,
                   hunting_success, chosen_scientists, message, error, path>>

\* choose_background, another number typed ("Invalid choice. Try again."):
\* the prompt repeats.  So it does when no number is typed (ValueError is
\* caught: "Please enter a number.").
choose_background_retry ==
    /\ pc = "choose_background"
    /\ \E c \in MenuInputs : ~(1 <= c /\ c <= Len(backgrounds))
    /\ UNCHANGED vars

\* One round of main()'s loop after jungle_exploration has returned.
main_round(result, p, c) ==
    /\ round' = round + 1
    /\ choice' = c
    /\ player' = p
    /\ main_player' = result
    /\ pc' = main_after_round(result, p, round + 1)
    /\ error' = IF result = "None" THEN "TypeError" ELSE ""
    /\ UNCHANGED <<chosen_scientists, message, path>>

no_hunt ==
    /\ chosen_animal' = Unbound
    /\ roll' = Unbound
    /\ hunting_success' = Unbound

\* choice == 1
explore_hunt ==
    /\ pc = "exploring"
    /\ \E a \in 1..Len(animals), r \in 1..10 :
        /\ chosen_animal' = <<animals[a]>>
        /\ roll' = <<r>>
        /\ hunting_success' = <<hunting_score(player, r)>>
        /\ main_round("dict", hunting_mini_game(player, animals[a], r), <<1>>)

\* choice == 2
explore_water ==
    /\ pc = "exploring"
    /\ \E s \in 1..Len(water_sources), answer \in DrinkAnswers :
        main_round("dict", water_search(player, water_sources[s], answer), <<2>>)
    /\ no_hunt

\* choice == 3
explore_shelter ==
    /\ pc = "exploring"
    /\ \E s \in 1..Len(shelters) :
        main_round("dict", find_shelter(player, shelters[s]), <<3>>)
    /\ no_hunt

\* choice == 4
explore_sounds ==
    /\ pc = "exploring"
    /\ \E o \in 1..Len(outcomes), i \in 1..Len(sound_items) :
        main_round("dict", investigate_sounds(player, outcomes[o], sound_items[i]), <<4>>)
    /\ no_hunt

\* Any other number: no branch of jungle_exploration is taken, it returns
\* None, main() binds player to None and player['health'] raises TypeError.
explore_other_number ==
    /\ pc = "exploring"
    /\ \E c \in MenuInputs \ (1..4) :
        main_round("None", player, <<c>>)
    /\ no_hunt

\* No number: int(input(...)) raises ValueError, which nothing catches.
explore_not_a_number ==
    /\ pc = "exploring"
    /\ round' = round + 1
    /\ pc' = "crashed"
    /\ error' = "ValueError"
    /\ choice' = Unbound
    /\ no_hunt
    /\ UNCHANGED <<player, main_player, chosen_scientists, message, path>>

\* After the loop: final_encounter is entered if health > 0, and draws the
\* scientists; otherwise main() goes on to game_conclusion.
main_if_alive ==
    /\ pc = "after_loop"
    /\ \E s \in samples :
        IF main_runs_final(player)
        THEN /\ pc' = "final_encounter"
             /\ chosen_scientists' = <<s>>
        ELSE /\ pc' = "game_conclusion"
             /\ chosen_scientists' = Unbound
    /\ choice' = Unbound
    /\ no_hunt
    /\ UNCHANGED <<player, main_player, round, message, error, path>>

\* A pilot among the chosen scientists typed: final_challenge, and return.
final_encounter_ok ==
    /\ pc = "final_encounter"
    /\ \E pilot \in PilotInputs : pilot \in chosen_scientists[1]
    /\ \E c \in 1..Len(challenges), r \in 1..10 :
        message' = final_challenge(challenges[c], r)
    /\ pc' = "game_conclusion"
    /\ chosen_scientists' = Unbound
    /\ UNCHANGED <<player, main_player, round, choice, chosen_animal, roll,
                   hunting_success, error, path>>

\* Another word typed: the prompt repeats.
final_encounter_retry ==
    /\ pc = "final_encounter"
    /\ \E pilot \in PilotInputs : pilot \notin chosen_scientists[1]
    /\ UNCHANGED vars

game_conclusion ==
    /\ pc = "game_conclusion"
    /\ message' = game_conclusion_line(player)
    /\ pc' = "done"
    /\ UNCHANGED <<player, main_player, round, choice, chosen_animal, roll,
                   hunting_success, chosen_scientists, error, path>>

Next ==
    \/ choose_background_ok
    \/ choose_background_retry
    \/ explore_hunt
    \/ explore_water
    \/ explore_shelter
    \/ explore_sounds
    \/ explore_other_number
    \/ explore_not_a_number
    \/ main_if_alive
    \/ final_encounter_ok
    \/ final_encounter_retry
    \/ game_conclusion

Spec ==
    Init /\ [][Next]_vars

\* A walk through the dungeon: from the current room, any of its transitions
\* is followed.  idk.py holds the table and no code that walks it; the step
\* is the one the specification gives a choice that leads to a scene.  A
\* name that is no room of the table has no transition to follow.
dungeon_move ==
    /\ Len(path) < MaxPath
    /\ current_room(path) \in DOMAIN rooms
    /\ \E next_room \in room_targets(current_room(path)) :
        path' = Append(path, next_room)
    /\ UNCHANGED <<pc, player, main_player, round, choice, chosen_animal, roll,
                   hunting_success, chosen_scientists, message, error>>

\* The dungeon, walked from "Entrance"; the adventure game does not run.
SpecRooms ==
    Init /\ [][dungeon_move]_vars

\* The program when every input has passed validation: the prompts that
\* repeat do not, and the exploration menu gets a number from 1 to 4.
NextValid ==
    \/ choose_background_ok
    \/ explore_hunt
    \/ explore_water
    \/ explore_shelter
    \/ explore_sounds
    \/ main_if_alive
    \/ final_encounter_ok
    \/ game_conclusion

\* The process is never suspended except to read input, and every input
\* arrives: a step that is possible is taken.
SpecValid ==
    Init /\ [][NextValid]_vars /\ WF_vars(NextValid)

----------------------------------------------------------------------------
(* Properties.                                                             *)

IsPrefix(s, t) ==
    Len(s) <= Len(t) /\ \A i \in 1..Len(s) : s[i] = t[i]

\* A step that runs one exploration round.
ExplorationStep ==
    pc = "exploring" /\ round' = round + 1

\* C2: a number outside 1..4 typed at the exploration menu is reported as an
\* error and leaves the session as it was: the player state is unchanged,
\* main() still holds its player, and the session goes on (the menu can be
\* shown again).
C2_InvalidChoiceLeavesSession ==
    [][(ExplorationStep /\ choice' # Unbound /\ choice'[1] \notin 1..4)
        => /\ player' = player
           /\ main_player' = main_player
           /\ pc' # "crashed"]_vars

\* C3: a hunt succeeds exactly when roll + bonus >= the difficulty of the
\* animal drawn (Deer 3, Wild Boar 5, Turkey 2); a successful hunt adds the
\* animal's food value (30, 50, 20) to food and appends "<name> meat" to the
\* inventory, with health unchanged; a failed hunt changes none of the three.
\* From health 100, food 0 and an empty inventory, Turkey with roll 8 gives
\* food 20, inventory ["Turkey meat"] and health 100.
C3_HuntingOutcome ==
    [][(ExplorationStep /\ choice' = <<1>>) =>
        LET animal == chosen_animal'[1]
            r == roll'[1]
            bonus == IF In(STR_scout, player.skills) \/ In(STR_guide, player.skills)
                     THEN 3 ELSE 0
            success == r + bonus >= animal.difficulty
        IN  /\ animal \in {[name |-> STR_Deer, difficulty |-> 3, food_value |-> 30],
                           [name |-> STR_Wild_Boar, difficulty |-> 5, food_value |-> 50],
                           [name |-> STR_Turkey, difficulty |-> 2, food_value |-> 20]}
            /\ r \in 1..10
            /\ player'.health = player.health
            /\ success =>
                /\ player'.food = player.food + animal.food_value
                /\ player'.inventory = Append(player.inventory, animal.name \o STR_meat)
            /\ ~success =>
                /\ player'.food = player.food
                /\ player'.inventory = player.inventory
            /\ (/\ animal.name = STR_Turkey /\ r = 8
                /\ player.health = 100 /\ player.food = 0 /\ player.inventory = <<>>)
               => /\ player'.food = 20
                  /\ player'.inventory = <<STR_Turkey \o STR_meat>>
                  /\ player'.health = 100]_vars

C3_TurkeyRollEight ==
    /\ chosen_animal = <<animals[3]>>
    /\ roll = <<8>>
    /\ player.food = 20
    /\ player.inventory = <<STR_Turkey \o STR_meat>>
    /\ player.health = 100

\* C4: the skills are assigned once, by choose_background, which takes them
\* from the empty list to a list of one skill; no other step (exploration
\* round, mini-game, final encounter, conclusion) changes them.
C4_SkillsAssignedOnce ==
    /\ [](pc # "choose_background" => Len(player.skills) = 1)
    /\ [][/\ pc # "choose_background" => player'.skills = player.skills
          /\ player'.skills # player.skills =>
                /\ player.skills = <<>>
                /\ Len(player'.skills) = 1
                /\ pc' # "choose_background"]_vars

C4_SkillsKeptToTheEnd ==
    /\ pc = "done"
    /\ player.skills = <<STR_scout>>
    /\ Len(player.inventory) = 2
    /\ player.food > 0
    /\ player.health # 100

\* C5: the inventory is append-only: over every step the inventory before is
\* a prefix of the inventory after.
C5_InventoryAppendOnly ==
    [][IsPrefix(player.inventory, player'.inventory)]_vars

C5_ThreeItems ==
    /\ pc = "done"
    /\ player.inventory = <<STR_Ancient_Map, STR_Deer \o STR_meat, STR_Tribal_Artifact>>

\* C6: food never decreases, and a step changes it only if the step is a
\* successful hunt.
C6_FoodOnlyFromHunting ==
    [][/\ player'.food >= player.food
       /\ player'.food # player.food =>
            /\ ExplorationStep
            /\ choice' = <<1>>
            /\ hunting_success'[1] >= chosen_animal'[1].difficulty]_vars

\* A failed hunt after a successful hunt and a change of health.
C6_FailedHuntKeepsFood ==
    /\ choice = <<1>>
    /\ hunting_success[1] < chosen_animal[1].difficulty
    /\ player.food > 0
    /\ player.health # 100
    /\ Len(player.inventory) = 1

\* C7: every transition of every room of the table leads to a room of the
\* table, so every name reached from "Entrance" is a room of the table.
C7_NoDanglingRoom ==
    /\ \A r \in DOMAIN rooms : room_targets(r) \subseteq DOMAIN rooms
    /\ reached_from({"Entrance"}) \subseteq DOMAIN rooms
    /\ \A i \in 1..Len(path) : path[i] \in DOMAIN rooms

\* A walk over every room of the table, ending where the fight leads.
C7_EveryRoomWalked ==
    /\ {path[i] : i \in 1..Len(path)} = DOMAIN rooms
    /\ current_room(path) = "Fight Outcome"

\* The order of the lifecycle.
Stage(p) ==
    CASE p = "choose_background" -> 0
      [] p = "exploring"         -> 1
      [] p = "after_loop"        -> 2
      [] p = "final_encounter"   -> 3
      [] p = "game_conclusion"   -> 4
      [] p = "done"              -> 5
      [] OTHER                   -> 6

\* C8: with validated inputs a session goes through character creation,
\* at most 3 exploration rounds, the final encounter (at most once, only
\* after the exploration has ended, only with health > 0) and the
\* conclusion, in this order; it always reaches the conclusion; after the
\* conclusion nothing changes.
C8_Lifecycle ==
    /\ [](Stage(pc) <= 5 /\ round \in -1..2)
    /\ [][/\ Stage(pc') >= Stage(pc)
          /\ Stage(pc') = Stage(pc) => pc = "exploring"
          /\ pc = "exploring" => round' = round + 1
          /\ pc # "exploring" => round' = round
          /\ pc' = "final_encounter" => pc = "after_loop" /\ player.health > 0
          /\ pc' = "game_conclusion" => pc \in {"after_loop", "final_encounter"}
          /\ pc \in {"game_conclusion", "done"} => player' = player
          /\ pc # "done"]_vars
    /\ <>(pc = "done")

C8_ThreeRoundsThenConcluded ==
    /\ pc = "done"
    /\ round = 2
    /\ message = "survived"
    /\ Len(player.inventory) = 3

\* C9: the hunting score is the roll plus 3 for the backgrounds
\* "Ex-Military Scout" and "Local Jungle Guide", and the roll alone for
\* "Wilderness Survivor" and "Adventurous Researcher".
C9_BonusByBackground ==
    hunting_success # Unbound =>
        hunting_success[1] - roll[1] =
            IF player.background \in {STR_Ex_Military_Scout, STR_Local_Jungle_Guide}
            THEN 3 ELSE 0

\* C10: health stays within 70..190, so it is always > 0; the loop is never
\* left before its third round, and game_conclusion is only reached through
\* final_encounter.
C10_HealthStaysPositive ==
    /\ player.health \in 70..190
    /\ player.health > 0
    /\ pc = "after_loop" => round = 2
    /\ pc = "game_conclusion" =>
        message \in {"completed", "failed", "scared away", "escaped unharmed"}
    /\ pc = "done" => message = "survived"

C10_LowestHealth ==
    /\ pc = "done"
    /\ player.health = 70

====
